---------------------------- MODULE Spec2Model ----------------------------
(***************************************************************************)
(* Rank transformation and calibration pipeline of preprocessing.py:       *)
(* normalize_and_rank_transform (row normalisation, shuffled stable        *)
(* descending argsort), the record table built in main, and the steps of   *)
(* calculate_transformation_metrics with the files they write.             *)
(*                                                                         *)
(* Floating point values are modelled by exact fractions <<n, d>> in       *)
(* lowest terms. d = 0 encodes the non-finite IEEE values: <<1, 0>> is     *)
(* +inf, <<-1, 0>> is -inf and <<0, 0>> is NaN.  Genes and cells are       *)
(* indexed from 1 (numpy index + 1); ranks keep numpy's 0-based values.    *)
(* A value log10(v) is represented by its antilogarithm v: log10 is        *)
(* strictly increasing, so log10(v) < t is decided as v < 10^t.            *)
(***************************************************************************)
EXTENDS Integers, Sequences, FiniteSets, Bags, TLC

\* ------------------------------------------------------------------ bounds
NumCells == 2
NumGenes == 3
MaxCount == 2
SmallSampleSize == 1
MaxRecords == 2

\* ------------------------------------------------------- program constants
BASE10_THRESHOLD == 3
\* Read only by the subsampling of line 173, which SUBSAMPLE = False disables.
RANDOM_SEED == 42
TARGET_SUM == 10000
PLOTTING_SAMPLE_SIZE == 10000

Cells == 1..NumCells
Genes == 1..NumGenes
Counts == 0..MaxCount

\* ------------------------------------------------------------- arithmetic
Abs(n) == IF n < 0 THEN -n ELSE n

Sign(n) == IF n > 0 THEN 1 ELSE IF n < 0 THEN -1 ELSE 0

RECURSIVE GCD(_, _)
GCD(a, b) == IF b = 0 THEN a ELSE GCD(b, a % b)

\* The float with value n/d: lowest terms, positive denominator; d = 0 gives
\* +inf, -inf or NaN as IEEE division does.
Q(n, d) ==
    IF d = 0 THEN <<Sign(n), 0>>
    ELSE LET g == GCD(Abs(n), Abs(d))
             s == Sign(d)
         IN  <<(s * n) \div g, (s * d) \div g>>

FromInt(n) == <<n, 1>>

NaN == <<0, 0>>

IsNaN(a) == a = NaN

QDiv(a, b) == Q(a[1] * b[2], a[2] * b[1])

QMul(a, b) == Q(a[1] * b[1], a[2] * b[2])

QAdd(a, b) ==
    IF a[2] = 0 /\ b[2] = 0
    THEN (IF a = b THEN a ELSE NaN)
    ELSE Q(a[1] * b[2] + b[1] * a[2], a[2] * b[2])

\* IEEE a > b: false as soon as one side is NaN.
QGreater(a, b) ==
    /\ ~IsNaN(a)
    /\ ~IsNaN(b)
    /\ IF a[2] = 0 /\ b[2] = 0 THEN a[1] > b[1]
       ELSE a[1] * b[2] > b[1] * a[2]

RECURSIVE QSum(_)
QSum(s) == IF s = <<>> THEN FromInt(0) ELSE QAdd(Head(s), QSum(Tail(s)))

RECURSIVE Pow10(_)
Pow10(k) == IF k = 0 THEN 1 ELSE 10 * Pow10(k - 1)

\* ------------------------------------------------------ normalisation (44)
\* np.sum(data_matrix_X, axis=1)
RowSums(m) == [i \in DOMAIN m |-> QSum(m[i])]

\* np.diag(v): v on the diagonal, zeros elsewhere.
Diag(v) == [i \in DOMAIN v |-> [k \in DOMAIN v |-> IF i = k THEN v[i] ELSE FromInt(0)]]

\* a @ b
MatMul(a, b) ==
    [i \in DOMAIN a |->
        [j \in DOMAIN b[1] |->
            QSum([k \in DOMAIN b |-> QMul(a[i][k], b[k][j])])]]

\* np.diag(10000 / np.ravel(np.sum(X, axis=1))) @ X
RowNormalize(m) ==
    LET sums  == RowSums(m)
        scale == [i \in DOMAIN m |-> QDiv(FromInt(TARGET_SUM), sums[i])]
    IN  MatMul(Diag(scale), m)

\* ------------------------------------------------------------ ranking (49-54)
Bijections(n) == {p \in [1..n -> 1..n] : \A a, b \in 1..n : p[a] = p[b] => a = b}

\* Variant: no shuffle, the arrays stay in gene order.
ShuffleOutcomesNone(n) == {[k \in 1..n |-> k]}

\* The orders sklearn.utils.shuffle can put n items in.  It is called without
\* random_state, so it draws from numpy's global generator, which nothing in
\* the program seeds: every permutation is a possible outcome of every call.
ShuffleOutcomes(n) == Bijections(n)

\* shuffle(cols, vals): both arrays reordered by the same permutation.
Shuffled(s, perm) == [k \in DOMAIN s |-> s[perm[k]]]

\* Variant: the sign flip left out, so the argsort is ascending.
NegateOmitted(vals) == vals

\* -vals
Negate(vals) == [k \in DOMAIN vals |-> Q(-vals[k][1], vals[k][2])]

\* numpy's sort order on floats: a before b when a < b, NaN after everything.
SortsBefore(a, b) == (~IsNaN(a) /\ IsNaN(b)) \/ QGreater(b, a)

\* Insert position p into the sorted index list idx, after every entry that
\* does not sort after it (stable).
RECURSIVE InsertStable(_, _, _)
InsertStable(idx, p, keys) ==
    IF idx = <<>> THEN <<p>>
    ELSE IF SortsBefore(keys[p], keys[Head(idx)])
         THEN <<p>> \o idx
         ELSE <<Head(idx)>> \o InsertStable(Tail(idx), p, keys)

RECURSIVE ArgsortUpTo(_, _)
ArgsortUpTo(keys, n) ==
    IF n = 0 THEN <<>> ELSE InsertStable(ArgsortUpTo(keys, n - 1), n, keys)

\* np.argsort(keys, kind="stable"): positions of keys in ascending order.
ArgsortStable(keys) == ArgsortUpTo(keys, Len(keys))

\* ranks = cols[np.argsort(-vals, kind="stable")] after the shuffle: the genes
\* in descending order of value.
RankedGenes(row, perm) ==
    LET cols  == Shuffled([g \in DOMAIN row |-> g], perm)
        vals  == Shuffled(row, perm)
        order == ArgsortStable(Negate(vals))
    IN  [j \in DOMAIN row |-> cols[order[j]]]

\* for j in range(len(ranks)): rank_matrix_X[i, ranks[j]] = j, from index j on.
RECURSIVE AssignRanks(_, _, _)
AssignRanks(out, ranks, j) ==
    IF j > Len(ranks) THEN out
    ELSE AssignRanks([out EXCEPT ![ranks[j]] = j - 1], ranks, j + 1)

\* Variant: competition ranking, a gene's rank is the number of genes with a
\* strictly larger value, so tied genes share a rank.
RankRowCompeting(zeros, row, perm) ==
    [g \in DOMAIN zeros |->
        Cardinality({h \in DOMAIN row : QGreater(row[h], row[g])})]

\* One iteration of the loop over cells: the row of rank_matrix_X for a row of
\* data_matrix_X, given the permutation the shuffle drew.
RankRow(zeros, row, perm) == AssignRanks(zeros, RankedGenes(row, perm), 1)

\* ------------------------------------------- rebinding of the argument (43-45)
\* Variant: the normalised values written into the array that was passed
\* (data_matrix_X[:] = ...).
NormalizedInPlace(m) == [caller |-> RowNormalize(m), local |-> RowNormalize(m)]

\* Lines 44-45 build the normalised matrix as a new array and rebind the local
\* name to it: the array the caller passed keeps its contents.
NormalizedInto(m) == [caller |-> m, local |-> RowNormalize(m)]

\* np.zeros(shape=data_matrix_X.shape)
Zeros(m) == [i \in DOMAIN m |-> [g \in DOMAIN m[i] |-> 0]]

\* ------------------------------------------------------ record table (196-204)
\* np.ravel(m)[k] (row-major), k from 1.
Ravel(m, k) == m[((k - 1) \div NumGenes) + 1][((k - 1) % NumGenes) + 1]

\* np.log10(1 + v), held as the antilogarithm 1 + v.
Log10OnePlus(v) == QAdd(FromInt(1), v)

\* One row of the DataFrame of lines 196-202, from the three values at one
\* flat position.
Record(k, raw, norm, rank) ==
    [index                             |-> k,
     raw_transcript_count              |-> raw,
     preprocessed_transcript_count     |-> norm,
     preprocessed_rank                 |-> rank,
     log_preprocessed_transcript_count |-> Log10OnePlus(norm),
     log_preprocessed_rank             |-> Log10OnePlus(FromInt(rank))]

\* Row k of the DataFrame before filtering.
RecordAt(raw, norm, rank, k) ==
    Record(k, Ravel(raw, k), Ravel(norm, k), Ravel(rank, k))

\* Variant: the filter applied to the normalised count.
KeepRecordNormalized(r) == r.preprocessed_transcript_count # FromInt(0)

\* Line 204: the rows kept are those whose raw count is not 0.
KeepRecord(r) == r.raw_transcript_count # FromInt(0)

\* expr_and_rank_df after line 204.
ExprAndRankDf(raw, norm, rank) ==
    SelectSeq([k \in 1..(Len(raw) * NumGenes) |-> RecordAt(raw, norm, rank, k)],
              KeepRecord)

\* ------------------------------------------------------- calibration (85-150)
\* df[x_axis_name] < BASE10_THRESHOLD on one row: log10(1 + rank) < 3.
BelowThreshold(r) ==
    QGreater(FromInt(Pow10(BASE10_THRESHOLD)), r.log_preprocessed_rank)

\* The rows the regression is fitted on (lines 85-86).
CalibrationSubset(d) == SelectSeq(d, BelowThreshold)

\* The (log rank, log expression) points of a table, with multiplicity.
RECURSIVE Points(_)
Points(d) ==
    IF d = <<>> THEN EmptyBag
    ELSE SetToBag({<<Head(d).log_preprocessed_rank,
                     Head(d).log_preprocessed_transcript_count>>})
         (+) Points(Tail(d))

\* LinearRegression().fit(x, y): least squares is a function of the multiset
\* of points it is given; the fitted line is named by that multiset.
FitLine(d) == [fitted_on |-> Points(CalibrationSubset(d))]

\* fit() validates its input first and raises ValueError on zero samples.
FitRaises(d) == CalibrationSubset(d) = <<>>

\* df.sample(n) without replacement raises ValueError when n > len(df).
SampleRaises(d, n) == n > Len(d)

\* pearsonr raises ValueError on fewer than two observations.
MetricsRaise(d) == Len(d) < 2

\* Lines 105-118: the reconstruction by the fitted line and its R^2, Pearson
\* and Spearman scores; they are functions of the fitted line and of the points
\* of the whole table, and are named by them.
Scores(line, d) == [predicted_by |-> line, scored_on |-> Points(d)]

\* Lines 140-149: the one-row metrics table, built from the threshold, the
\* fitted line and the scores.
MetricsDf(line, sc) ==
    [threshold |-> BASE10_THRESHOLD, reg |-> line, scores |-> sc]

PLOT_RANK_EXPR == "plot_log_rank_vs_log_expr.png"
PLOT_RECONSTRUCTED == "plot_gt_expr_vs_reconstructed_expr_from_rank.png"
METRICS_CSV == "transformation_metrics_and_parameters.csv"
PREPROCESSED_ADATA == "preprocessed_adata.h5ad"

Artifacts == {PLOT_RANK_EXPR, PLOT_RECONSTRUCTED, METRICS_CSV, PREPROCESSED_ADATA}

\* plotting_sample_size as main passes it, and a size a table of the model's
\* dimensions can supply.
SampleSizes == {SmallSampleSize, PLOTTING_SAMPLE_SIZE}

NoValue == <<>>

\* The target totals a run can be configured with: the default, and the 10 of
\* the worked example.  normalize_and_rank_transform has no parameter for it
\* and no action reads it.
ConfiguredTargets == {10, TARGET_SUM}

\* ------------------------------------------------------------------- state
VARIABLES
    arg_X,                \* the array object passed to normalize_and_rank_transform
    raw_X,                \* main's separate copy of the raw counts (line 191)
    normalize,            \* the normalize flag
    normalization_target, \* the target total the run is configured with
    data_matrix_X,        \* the array the function's name data_matrix_X is bound to
    rank_matrix_X,        \* rank_matrix_X
    row,                  \* the cell the loop of line 48 is at
    pc,                   \* position in the program
    plotting_sample_size, \* argument of calculate_transformation_metrics
    df,                   \* expr_and_rank_df
    reg,                  \* the fitted regression
    scores,               \* the scores of lines 105-118
    metrics_df,           \* the metrics table written to the CSV
    written,              \* files written under CURRENT_DIR
    error,                \* the exception that ended the run, if any
    run,                  \* which execution of the program this is
    prev_rank,            \* rank matrix of the previous execution
    prev_metrics          \* metrics table of the previous execution

vars == <<arg_X, raw_X, normalize, normalization_target, data_matrix_X, rank_matrix_X, row, pc,
          plotting_sample_size, df, reg, scores, metrics_df, written, error,
          run,
          prev_rank, prev_metrics>>

inputs == <<raw_X, normalize, normalization_target>>
history == <<run, prev_rank, prev_metrics>>
calib == <<plotting_sample_size, df, reg, scores, metrics_df, written, error>>
transform == <<arg_X, data_matrix_X, rank_matrix_X, row>>

Matrices == [Cells -> [Genes -> {FromInt(c) : c \in Counts}]]

Init ==
    /\ raw_X \in Matrices
    /\ arg_X = raw_X
    /\ data_matrix_X = arg_X
    /\ normalize \in BOOLEAN
    /\ normalization_target \in ConfiguredTargets
    /\ rank_matrix_X = NoValue
    /\ row = 0
    /\ pc = "normalize"
    /\ plotting_sample_size = 0
    /\ df = NoValue
    /\ reg = NoValue
    /\ scores = NoValue
    /\ metrics_df = NoValue
    /\ error = "none"
    /\ written = {}
    /\ run = 1
    /\ prev_rank = NoValue
    /\ prev_metrics = NoValue

\* ----------------------------------------------------------------- actions
\* Lines 43-47: optional normalisation, then the zeroed rank matrix.
NormalizeStep ==
    /\ pc = "normalize"
    /\ IF normalize
       THEN /\ arg_X' = NormalizedInto(arg_X).caller
            /\ data_matrix_X' = NormalizedInto(arg_X).local
       ELSE UNCHANGED <<arg_X, data_matrix_X>>
    /\ rank_matrix_X' = Zeros(data_matrix_X')
    /\ row' = 1
    /\ pc' = "rank"
    /\ UNCHANGED <<inputs, calib, history>>

\* Lines 48-56: one iteration of the loop over cells; after the last one the
\* function returns.
RankStep ==
    /\ pc = "rank"
    /\ \E perm \in ShuffleOutcomes(Len(data_matrix_X[row])) :
          rank_matrix_X' =
              [rank_matrix_X EXCEPT
                  ![row] = RankRow(@, data_matrix_X[row], perm)]
    /\ row' = row + 1
    /\ pc' = IF row = Len(data_matrix_X) THEN "assemble" ELSE "rank"
    /\ UNCHANGED <<arg_X, data_matrix_X, inputs, calib, history>>

\* Lines 196-208: the record table, then the call of
\* calculate_transformation_metrics.
Assemble ==
    /\ pc = "assemble"
    /\ df' = ExprAndRankDf(raw_X, data_matrix_X, rank_matrix_X)
    /\ plotting_sample_size' \in SampleSizes
    /\ pc' = "fit"
    /\ UNCHANGED <<transform, inputs, reg, scores, metrics_df, written, error,
                   history>>

Raise(e) ==
    /\ pc' = "failed"
    /\ error' = e

\* Lines 85-88.
Fit ==
    /\ pc = "fit"
    /\ IF FitRaises(df)
       THEN Raise("ValueError") /\ UNCHANGED reg
       ELSE reg' = FitLine(df) /\ pc' = "plot1" /\ UNCHANGED error
    /\ UNCHANGED <<transform, inputs, plotting_sample_size, df, scores, metrics_df,
                   written, history>>

\* A file write: it succeeds, or the file system refuses it.
Save(file, next) ==
    \/ written' = written \cup {file} /\ pc' = next /\ UNCHANGED error
    \/ Raise("OSError") /\ UNCHANGED written

\* Lines 91-102.
PlotRankExpr ==
    /\ pc = "plot1"
    /\ IF SampleRaises(df, plotting_sample_size)
       THEN Raise("ValueError") /\ UNCHANGED written
       ELSE Save(PLOT_RANK_EXPR, "metrics")
    /\ UNCHANGED <<transform, inputs, plotting_sample_size, df, reg, scores,
                   metrics_df, history>>

\* Lines 105-118.
Metrics ==
    /\ pc = "metrics"
    /\ IF MetricsRaise(df)
       THEN Raise("ValueError") /\ UNCHANGED scores
       ELSE scores' = Scores(reg, df) /\ pc' = "plot2" /\ UNCHANGED error
    /\ UNCHANGED <<transform, inputs, plotting_sample_size, df, reg, metrics_df,
                   written, history>>

\* Lines 120-137.
PlotReconstructed ==
    /\ pc = "plot2"
    /\ IF SampleRaises(df, plotting_sample_size)
       THEN Raise("ValueError") /\ UNCHANGED written
       ELSE Save(PLOT_RECONSTRUCTED, "csv")
    /\ UNCHANGED <<transform, inputs, plotting_sample_size, df, reg, scores,
                   metrics_df, history>>

\* Lines 140-150: the metrics table is built, then written; the table is
\* bound whether or not the write succeeds.
SaveCsv ==
    /\ pc = "csv"
    /\ metrics_df' = MetricsDf(reg, scores)
    /\ Save(METRICS_CSV, "adata")
    /\ UNCHANGED <<transform, inputs, plotting_sample_size, df, reg, scores,
                   history>>

\* Line 212: the last of the four files.  The cell sentence export of lines
\* 213-214 belongs to the downstream modules and is not part of the model.
WriteAdata ==
    /\ pc = "adata"
    /\ Save(PREPROCESSED_ADATA, "done")
    /\ UNCHANGED <<transform, inputs, plotting_sample_size, df, reg, scores,
                   metrics_df, history>>

\* The program is run again on the same file with the same constants.
Rerun ==
    /\ pc = "done"
    /\ run = 1
    /\ run' = 2
    /\ prev_rank' = rank_matrix_X
    /\ prev_metrics' = metrics_df
    /\ arg_X' = raw_X
    /\ data_matrix_X' = raw_X
    /\ rank_matrix_X' = NoValue
    /\ row' = 0
    /\ pc' = "normalize"
    /\ plotting_sample_size' = 0
    /\ df' = NoValue
    /\ reg' = NoValue
    /\ scores' = NoValue
    /\ metrics_df' = NoValue
    /\ error' = "none"
    /\ UNCHANGED <<inputs, written>>

Pipeline ==
    \/ NormalizeStep
    \/ RankStep
    \/ Assemble
    \/ Fit
    \/ PlotRankExpr
    \/ Metrics
    \/ PlotReconstructed
    \/ SaveCsv
    \/ WriteAdata

Next == Pipeline

Spec == Init /\ [][Next]_vars

NextRepeat == Pipeline \/ Rerun

SpecRepeat == Init /\ [][NextRepeat]_vars

\* calculate_transformation_metrics called on its own, on a table of up to
\* MaxRecords rows of nonzero raw count; ranks are taken around the threshold
\* 10^3 - 1, which no matrix of the model's width reaches.
RankSamples == {0, 998, 999}

SampleRecords ==
    {Record(1, FromInt(c), FromInt(c), r) : c \in 1..MaxCount, r \in RankSamples}

SampleTables ==
    UNION {[1..n -> SampleRecords] : n \in 0..MaxRecords}

InitCalib ==
    /\ df \in SampleTables
    /\ plotting_sample_size \in SampleSizes
    /\ pc = "fit"
    /\ raw_X = NoValue
    /\ arg_X = NoValue
    /\ data_matrix_X = NoValue
    /\ rank_matrix_X = NoValue
    /\ normalize = FALSE
    /\ normalization_target = TARGET_SUM
    /\ row = 0
    /\ reg = NoValue
    /\ scores = NoValue
    /\ metrics_df = NoValue
    /\ error = "none"
    /\ written = {}
    /\ run = 1
    /\ prev_rank = NoValue
    /\ prev_metrics = NoValue

NextCalib ==
    \/ Fit
    \/ PlotRankExpr
    \/ Metrics
    \/ PlotReconstructed
    \/ SaveCsv

SpecCalib == InitCalib /\ [][NextCalib]_vars

\* ------------------------------------------------------------------ claims
\* The cells whose row of rank_matrix_X the loop has filled in.
RankedCells == IF pc = "normalize" THEN {} ELSE {c \in Cells : c < row}

\* The function has returned.
Returned == pc \notin {"normalize", "rank"}

RankValues == 0..(NumGenes - 1)

\* Genes of a row holding exactly the value gene g holds, g included.
TiedWith(r, g) == {h \in DOMAIN r : r[h] = r[g]}

\* How many genes of a row hold a strictly larger value than gene g.
NumGreater(r, g) == Cardinality({h \in DOMAIN r : QGreater(r[h], r[g])})

HasZeroRow(m) == \E c \in DOMAIN m : \A g \in DOMAIN m[c] : m[c][g] = FromInt(0)

\* C1: every ranked row of rank_matrix_X holds each of 0..G-1 exactly once.
C1_PermutationInvariant ==
    \A c \in RankedCells :
        /\ DOMAIN rank_matrix_X[c] = Genes
        /\ \A v \in RankValues :
              Cardinality({g \in Genes : rank_matrix_X[c][g] = v}) = 1

C1_Witness ==
    /\ pc = "assemble"
    /\ normalize
    /\ \E c \in Cells : Cardinality(TiedWith(data_matrix_X[c], 1)) = NumGenes
    /\ \E c \in Cells : \A g \in Genes : TiedWith(data_matrix_X[c], g) = {g}
    /\ \A c \in Cells : {rank_matrix_X[c][g] : g \in Genes} = RankValues

\* C2: in every ranked row, a gene with a strictly larger value than another
\* has a strictly smaller rank, whatever the shuffle drew.
C2_RankMonotonicity ==
    \A c \in RankedCells : \A a, b \in Genes :
        QGreater(data_matrix_X[c][a], data_matrix_X[c][b])
            => rank_matrix_X[c][a] < rank_matrix_X[c][b]

C2_Witness ==
    /\ pc = "assemble"
    /\ \E c \in Cells : \E a, b \in Genes :
          /\ a < b
          /\ QGreater(data_matrix_X[c][b], data_matrix_X[c][a])
          /\ rank_matrix_X[c][b] < rank_matrix_X[c][a]

\* The rank rows that give every group of tied genes the block of ranks that
\* starts at the number of genes with a strictly larger value.
BlockRankings(r) ==
    {f \in [DOMAIN r -> RankValues] :
        \A g \in DOMAIN r :
            {f[h] : h \in TiedWith(r, g)} =
                NumGreater(r, g)..(NumGreater(r, g) + Cardinality(TiedWith(r, g)) - 1)}

\* C3: the genes sharing a value get the block of consecutive ranks that
\* starts at the number of genes with a strictly larger value (so a gene tied
\* with no other has one possible rank), and for the row about to be ranked
\* every assignment of the blocks to their tied genes is an outcome of the
\* shuffle.
C3_TieHandling ==
    /\ \A c \in RankedCells : rank_matrix_X[c] \in BlockRankings(data_matrix_X[c])
    /\ pc = "rank" =>
          \A f \in BlockRankings(data_matrix_X[row]) :
              \E perm \in ShuffleOutcomes(NumGenes) :
                  RankRow(rank_matrix_X[row], data_matrix_X[row], perm) = f

C3_Witness ==
    /\ pc = "assemble"
    /\ \E c \in Cells :
          /\ Cardinality(TiedWith(data_matrix_X[c], 1)) = NumGenes
          /\ rank_matrix_X[c][1] = NumGenes - 1
          /\ rank_matrix_X[c][NumGenes] = NumGenes - 2
    /\ \E c \in Cells : \E g \in Genes :
          /\ TiedWith(data_matrix_X[c], g) = {g}
          /\ Cardinality(TiedWith(data_matrix_X[c], 1 + (g % NumGenes))) = 2
          /\ rank_matrix_X[c][g] = NumGreater(data_matrix_X[c], g)

\* The value x * T / s as the normaliser is claimed to return it.
Rescaled(x, T, s) == QDiv(QMul(x, FromInt(T)), s)

NormalizedTo(T) ==
    \A c \in Cells :
        QGreater(QSum(raw_X[c]), FromInt(0)) =>
            /\ \A g \in Genes :
                  data_matrix_X[c][g] = Rescaled(raw_X[c][g], T, QSum(raw_X[c]))
            /\ QSum(data_matrix_X[c]) = FromInt(T)

\* C4 as stated: with normalisation on, every row of positive sum is returned
\* as X[i,j] * T / sum(X[i,:]) and sums to T, for the target total T the run was
\* configured with.
C4_ConfiguredTarget ==
    (normalize /\ pc # "normalize") => NormalizedTo(normalization_target)

\* C5 as stated: with normalisation on and an all-zero row in the input, the
\* function ends in InvalidInputError and returns no matrix.
C5_ZeroRowRejected ==
    (normalize /\ HasZeroRow(raw_X) /\ pc # "normalize") =>
        /\ pc = "failed"
        /\ error = "InvalidInputError"
        /\ rank_matrix_X = NoValue

\* C6 as stated: a second run on the same input with the same RANDOM_SEED
\* returns the rank matrix of the first run and writes the same metrics.
C6_SeededReproducibility ==
    /\ (run = 2 /\ Returned) => rank_matrix_X = prev_rank
    /\ (run = 2 /\ pc = "done") => metrics_df = prev_metrics

\* Flat position of (cell, gene) in the three ravelled matrices.
FlatIndex(c, g) == (c - 1) * NumGenes + g

RecordsOf(c, g) == {k \in DOMAIN df : df[k].index = FlatIndex(c, g)}

\* C7: the table handed to the calibration has exactly one record for each
\* (cell, gene) of nonzero raw count and none for the others; the record's
\* raw, normalised and rank values are those of that position, the rank being
\* the one given over the full row.
C7_RecordAssembly ==
    pc \in {"fit", "plot1", "metrics", "plot2", "csv", "adata", "done"} =>
        \A c \in Cells : \A g \in Genes :
            /\ Cardinality(RecordsOf(c, g)) = IF raw_X[c][g] = FromInt(0) THEN 0 ELSE 1
            /\ \A k \in RecordsOf(c, g) :
                  /\ df[k].raw_transcript_count = raw_X[c][g]
                  /\ df[k].preprocessed_transcript_count = data_matrix_X[c][g]
                  /\ df[k].preprocessed_rank = rank_matrix_X[c][g]
                  /\ rank_matrix_X[c] \in BlockRankings(data_matrix_X[c])
                  /\ df[k].log_preprocessed_rank = FromInt(1 + rank_matrix_X[c][g])
                  /\ df[k].log_preprocessed_transcript_count =
                        QAdd(FromInt(1), data_matrix_X[c][g])

C7_Witness ==
    /\ pc = "fit"
    /\ normalize
    /\ HasZeroRow(raw_X)
    /\ \E c \in Cells : \E g, h \in Genes :
          /\ g < h
          /\ raw_X[c][g] = FromInt(0)
          /\ raw_X[c][h] # FromInt(0)
          /\ RecordsOf(c, g) = {}
          /\ \E k \in RecordsOf(c, h) : df[k].preprocessed_rank = 0
    /\ Len(df) = 2

\* C8 as stated: a run that completes has written every artifact, and a run
\* that fails has written none.
C8_AllOrNothing ==
    /\ pc = "done" => written = Artifacts
    /\ pc = "failed" => written = {}

\* Line 88 has been executed.
FitAttempted == pc \in {"plot1", "metrics", "plot2", "csv", "adata", "done", "failed"}

\* No row of the table has log10(1 + rank) below the threshold.
NoRecordBelowThreshold ==
    \A k \in DOMAIN df : 1 + df[k].preprocessed_rank >= Pow10(BASE10_THRESHOLD)

\* C9 as stated: when no record has log10(1 + rank) < threshold (the empty
\* table included), the run ends in InsufficientDataError with no line fitted,
\* no metrics row built and no file written.
C9_EmptySubsetFails ==
    (FitAttempted /\ NoRecordBelowThreshold) =>
        /\ pc = "failed"
        /\ error = "InsufficientDataError"
        /\ reg = NoValue
        /\ scores = NoValue
        /\ metrics_df = NoValue
        /\ written = {}

\* C10: the array the caller passed keeps its contents throughout; with
\* normalize off the returned matrix is that array entry for entry and the
\* ranks follow the raw values; with normalize on the normalised values are in
\* another matrix (C10_Witness: data_matrix_X differs from the caller's array).
C10_InputFrame ==
    /\ arg_X = raw_X
    /\ (~normalize /\ pc # "normalize") =>
          /\ data_matrix_X = arg_X
          /\ \A c \in RankedCells : rank_matrix_X[c] \in BlockRankings(raw_X[c])

C10_Witness ==
    /\ pc = "assemble"
    /\ normalize
    /\ arg_X = raw_X
    /\ \A c \in Cells : \A g \in Genes :
          raw_X[c][g] # FromInt(0) => data_matrix_X[c][g] # arg_X[c][g]
    /\ ~HasZeroRow(raw_X)

=============================================================================
